---- MODULE Spec2Model ----
(***************************************************************************)
(* Model of src/app.py: the stress-monitor web service.                    *)
(*                                                                         *)
(* State: the artifact read at import time and the (model, scaler) pair    *)
(* resolved from it, the in-memory session map, the JSON history file, and *)
(* the last response sent.  One action per request handler.                *)
(*                                                                         *)
(* Conventions                                                             *)
(*  - Python objects are records tagged by "type"; None is NoneObj.        *)
(*  - JSON numbers are written as strings ("0.02"), so a non-numeric value *)
(*    such as "abc" can stand next to them.                                *)
(*  - datetime.now() is a logical clock: each request reads now + 1.       *)
(*  - resp is the last response (status and JSON body) together with what  *)
(*    the handler handed to the estimator (resp.adapter).                  *)
(*  - produced is the log of the bodies analyze has returned with          *)
(*    success = true, in the order they were returned.                     *)
(*  - workers holds the analyze requests that server threads are handling  *)
(*    at the same time, each with its position in analyze_stress.          *)
(*                                                                         *)
(* Spec explores every start-up (artifact, history file) for a few         *)
(* requests; SpecLong follows long runs of analyze requests, past the cap  *)
(* of the history; SpecConc interleaves the steps of concurrent analyze    *)
(* requests.                                                               *)
(***************************************************************************)
EXTENDS Integers, Sequences, FiniteSets, TLC

VARIABLES loaded_object, model, scaler, sessions, datafile, writable, now, resp,
          produced, workers

vars ==
    <<loaded_object, model, scaler, sessions, datafile, writable, now, resp,
      produced, workers>>

(* ---------------------------- bounds ---------------------------------- *)

\* number of requests served in the main specification: MaxClock after a
\* start-up in DeepArtifacts, ShortClock after any other start-up
MaxClock == 3

ShortClock == 2

\* number of requests served in the long-history specification
LongClock == 152

(* ------------------------- Python objects ----------------------------- *)

NoneObj == [type |-> "NoneType"]

Estimator(n) == [type |-> "estimator", name |-> n]

ScalerObj == [type |-> "scaler", name |-> "std"]

Dict(e) == [type |-> "dict", entries |-> e]

\* joblib.load raised: there is no loaded object
LoadError == [type |-> "LoadError"]

\* bool(o) as Python evaluates it in "if not model" / "if scaler"
Truthy(o) ==
    CASE o.type = "NoneType" -> FALSE
      [] o.type = "dict" -> DOMAIN o.entries # {}
      [] OTHER -> TRUE

Has(o, k) == k \in DOMAIN o.entries

(* ----------------------- model loading (import) ------------------------ *)

\* the pipeline entry tested before the model and scaler pair
ResolveModelPipelineFirst(lo) ==
    IF lo.type = "LoadError" THEN NoneObj
    ELSE IF lo.type = "dict"
         THEN IF Has(lo, "pipeline") THEN lo.entries["pipeline"]
              ELSE IF Has(lo, "model") /\ Has(lo, "scaler") THEN lo.entries["model"]
              ELSE lo
         ELSE lo

ResolveModel(lo) ==
    IF lo.type = "LoadError" THEN NoneObj
    ELSE IF lo.type = "dict"
         THEN IF Has(lo, "model") /\ Has(lo, "scaler") THEN lo.entries["model"]
              ELSE IF Has(lo, "pipeline") THEN lo.entries["pipeline"]
              ELSE lo
         ELSE lo

ResolveScaler(lo) ==
    IF lo.type = "LoadError" THEN NoneObj
    ELSE IF lo.type = "dict"
         THEN IF Has(lo, "model") /\ Has(lo, "scaler") THEN lo.entries["scaler"]
              ELSE NoneObj
         ELSE NoneObj

\* what may sit under each key of a pickled dict
EntryValues(k) ==
    CASE k = "model" -> {NoneObj, Estimator("clf3")}
      [] k = "scaler" -> {NoneObj, ScalerObj}
      [] k = "pipeline" -> {NoneObj, Estimator("pipe3")}

ArtifactKeys == {"model", "scaler", "pipeline"}

DictArtifacts ==
    UNION { { Dict(e) : e \in { f \in [S -> UNION {EntryValues(k) : k \in S}] :
                                  \A k \in S : f[k] \in EntryValues(k) } }
            : S \in SUBSET ArtifactKeys }

ObjectArtifacts ==
    {Estimator("clf3"), Estimator("clfwide"), Estimator("clf2"), NoneObj}

Artifacts == {LoadError} \cup DictArtifacts \cup ObjectArtifacts

(* ------------------------------ JSON ----------------------------------- *)

\* a JSON object used as the "features" value, and any other JSON value
\* (null, array, string, number) in its place
JsonObject(f) == [json |-> "object", map |-> f]

JsonOther == [json |-> "other"]

\* Python None as a session id, and a request that has no session_id key
NoneId == "<None>"

AbsentKey == "<absent>"

\* data.get('session_id'): an absent key reads as None
GetSessionId(req) == IF req.session_id = AbsentKey THEN NoneId ELSE req.session_id

\* bool(session_id) for the ids of the model: None and "" are falsy
TruthyId(id) == id \notin {NoneId, ""}

(* ------------------------ feature normalisation ------------------------ *)

default_features ==
    [keys_per_minute |-> "45", avg_key_latency |-> "150",
     std_key_latency |-> "25", error_rate |-> "0.02",
     clicks_per_minute |-> "12", total_mouse_distance |-> "1200",
     avg_mouse_speed |-> "350"]

feature_order ==
    <<"keys_per_minute", "avg_key_latency", "std_key_latency", "error_rate",
      "clicks_per_minute", "total_mouse_distance", "avg_mouse_speed">>

test_features ==
    [keys_per_minute |-> "85", avg_key_latency |-> "85",
     std_key_latency |-> "35", error_rate |-> "0.08",
     clicks_per_minute |-> "25", total_mouse_distance |-> "2800",
     avg_mouse_speed |-> "650"]

\* features.update(default_features): provided values are overwritten
CompleteFeaturesOverwrite(f) ==
    [k \in DOMAIN f \cup DOMAIN default_features |->
        IF k \in DOMAIN default_features THEN default_features[k] ELSE f[k]]

\* the loop "for key, value in default_features.items(): if key not in features"
CompleteFeatures(f) ==
    [k \in DOMAIN f \cup DOMAIN default_features |->
        IF k \in DOMAIN f THEN f[k] ELSE default_features[k]]

\* X = [features.get(f, 0) for f in feature_order]
FeatureVector(f) ==
    [i \in 1..Len(feature_order) |->
        IF feature_order[i] \in DOMAIN f THEN f[feature_order[i]] ELSE "0"]

(* --------------------- the estimator and the scaler -------------------- *)

\* values numpy can turn into floats
Numeric ==
    {"0", "45", "150", "25", "0.02", "12", "1200", "350",
     "85", "35", "0.08", "2800", "650", "7", "-1.0", "0.0", "1.0"}

AllNumeric(X) == \A i \in 1..Len(X) : X[i] \in Numeric

\* StandardScaler.transform on one value
ScaleValue(v) ==
    IF v \in {default_features[k] : k \in DOMAIN default_features} THEN "0.0"
    ELSE IF v \in {test_features[k] : k \in DOMAIN test_features} THEN "1.0"
    ELSE "-1.0"

\* scaler.transform(X): [ok, err, X]
Transform(s, X) ==
    IF s.type # "scaler" THEN [ok |-> FALSE, err |-> "AttributeError", X |-> X]
    ELSE IF ~AllNumeric(X) THEN [ok |-> FALSE, err |-> "ValueError", X |-> X]
    ELSE [ok |-> TRUE, err |-> "", X |-> [i \in 1..Len(X) |-> ScaleValue(X[i])]]

\* the class a 3-class estimator picks, from the typing speed and error rate
ClassOf(X) ==
    IF X[1] \in {"85", "1.0"} /\ X[4] \in {"0.08", "1.0"} THEN 2
    ELSE IF X[1] \in {"45", "85"} THEN 1
    ELSE 0

\* model.predict(X)[0] after int(): [ok, err, value]
Predict(m, X) ==
    IF m.type # "estimator" THEN [ok |-> FALSE, err |-> "AttributeError", value |-> 0]
    ELSE IF ~AllNumeric(X) THEN [ok |-> FALSE, err |-> "ValueError", value |-> 0]
    ELSE [ok |-> TRUE, err |-> "",
          value |-> CASE m.name = "clf3" -> ClassOf(X)
                      [] m.name = "pipe3" -> 2 - ClassOf(X)
                      [] m.name = "clfwide" -> 2 * ClassOf(X) - 1
                      [] m.name = "clf2" -> IF ClassOf(X) = 0 THEN 0 ELSE 1]

\* model.predict_proba(X)[0]: one probability per class of the estimator
PredictProba(m, X) ==
    IF m.name = "clf2"
    THEN IF ClassOf(X) = 0 THEN <<"0.8", "0.2">> ELSE <<"0.3", "0.7">>
    ELSE CASE ClassOf(X) = 0 -> <<"0.7", "0.2", "0.1">>
           [] ClassOf(X) = 1 -> <<"0.2", "0.6", "0.2">>
           [] ClassOf(X) = 2 -> <<"0.1", "0.2", "0.7">>

(* ------------------------------ results -------------------------------- *)

stress_labels == <<"BAJO", "MEDIO", "ALTO">>

FallbackProbabilities == [bajo |-> "0.33", medio |-> "0.34", alto |-> "0.33"]

\* the trace of the classification made by the last request: the vector
\* built, whether scaler.transform ran, the index predict returned (raw, when
\* predicted), the number of probabilities predict_proba returned, and the
\* success flag and stress_level of the dictionary returned
NoAdapter ==
    [called |-> FALSE, X |-> <<>>, transformed |-> FALSE, predicted |-> FALSE,
     raw |-> 0, nproba |-> 0, success |-> FALSE, stress_level |-> 1]

AdapterTrace(X, transformed, predicted, raw, nproba, result) ==
    [called |-> TRUE, X |-> X, transformed |-> transformed,
     predicted |-> predicted, raw |-> raw, nproba |-> nproba,
     success |-> result.success, stress_level |-> result.stress_level]

\* the two dictionaries analyze_stress_with_features returns
ClassifyOk(prediction, probabilities) ==
    [success |-> TRUE, stress_level |-> prediction,
     stress_label |-> stress_labels[prediction + 1],
     probabilities |-> [bajo |-> probabilities[1], medio |-> probabilities[2],
                        alto |-> probabilities[3]]]

\* the failure dictionary with the wrong default class
ClassifyFailedLow(e) ==
    [success |-> FALSE, error |-> e, stress_level |-> 0,
     stress_label |-> "BAJO", probabilities |-> FallbackProbabilities]

ClassifyFailed(e) ==
    [success |-> FALSE, error |-> e, stress_level |-> 1,
     stress_label |-> "MEDIO", probabilities |-> FallbackProbabilities]

\* an out-of-range index clamped to the lowest class
ClampPredictionLow(p) == IF p < 0 \/ p > 2 THEN 0 ELSE p

\* "if prediction < 0 or prediction > 2: prediction = 1"
ClampPrediction(p) == IF p < 0 \/ p > 2 THEN 1 ELSE p

\* analyze_stress_with_features(features): [result, adapter]
analyze_stress_with_features(features) ==
    IF ~Truthy(model)
    THEN [result |-> ClassifyFailed("Modelo no disponible"), adapter |-> NoAdapter]
    ELSE
      LET X == FeatureVector(features)
          useScaler == Truthy(scaler)
          tr == IF useScaler THEN Transform(scaler, X)
                ELSE [ok |-> TRUE, err |-> "", X |-> X]
          pr == Predict(model, tr.X)
          pb == PredictProba(model, tr.X)
          out(predicted, raw, nproba, result) ==
              [result |-> result,
               adapter |-> AdapterTrace(X, useScaler, predicted, raw, nproba,
                                        result)]
      IN  IF ~tr.ok THEN out(FALSE, 0, 0, ClassifyFailed(tr.err))
          ELSE IF ~pr.ok THEN out(FALSE, 0, 0, ClassifyFailed(pr.err))
          ELSE IF Len(pb) < 3
               THEN out(TRUE, pr.value, Len(pb), ClassifyFailed("IndexError"))
          ELSE out(TRUE, pr.value, Len(pb),
                   ClassifyOk(ClampPrediction(pr.value), pb))

(* --------------------------- history file ------------------------------ *)

HistoryCap == 100

\* the slice left out: nothing is cut
LastNNoCut(s, n) == s

\* s[:n] written for s[-n:]: the oldest entries are kept
LastNHead(s, n) == IF Len(s) <= n THEN s ELSE SubSeq(s, 1, n)

\* s[-n:] for n > 0
LastN(s, n) == IF Len(s) <= n THEN s ELSE SubSeq(s, Len(s) - n + 1, Len(s))

\* DATA_FILE: absent, not parseable, a JSON value that is not an array (a
\* JSON object with one member), or an array
FileMissing == [kind |-> "missing", data |-> <<>>]

FileCorrupt == [kind |-> "corrupt", data |-> <<>>]

FileObject == [kind |-> "object", data |-> <<>>]

FileArray(h) == [kind |-> "array", data |-> h]

\* load_data(): [list, value]; a parsed value that is not a list is returned
\* as it is
load_data ==
    CASE datafile.kind = "array" -> [list |-> TRUE, value |-> datafile.data]
      [] datafile.kind = "object" -> [list |-> FALSE, value |-> <<>>]
      [] OTHER -> [list |-> TRUE, value |-> <<>>]

\* save_data(data): the file after the call; a failed write is swallowed
save_data(data) == IF writable THEN FileArray(data) ELSE datafile

\* the persisted history as the service reads it
history == load_data.value

(* ------------------------------ requests ------------------------------- *)

SessionIdInputs == {AbsentKey, "a", ""}

EventInputs == {<<>>, <<"e1">>, <<"e2", "e1">>}

FeatureInputs ==
    { JsonObject(<<>>),
      JsonObject([keys_per_minute |-> "85", error_rate |-> "0.08", extra |-> "7"]),
      JsonObject(test_features),
      JsonObject([avg_key_latency |-> "abc"]),
      JsonOther }

StartRequests == [session_id : SessionIdInputs]

RecordRequests == [session_id : SessionIdInputs \cup {"b"}, events : EventInputs]

AnalyzeRequests ==
    [body : {"object"}, session_id : {AbsentKey, "a", "b", ""},
     features : FeatureInputs]
    \cup {[body |-> "other", session_id |-> AbsentKey, features |-> JsonOther]}

NoRequest == [none |-> TRUE]

(* ------------------------------- Init ---------------------------------- *)

InitialResponse ==
    [op |-> "init", req |-> NoRequest, status |-> 0, body |-> [none |-> TRUE],
     adapter |-> NoAdapter, known |-> FALSE]

PairedArtifact ==
    Dict([model |-> Estimator("clf3"), scaler |-> ScalerObj])

\* start-ups explored to MaxClock requests
DeepArtifacts == {LoadError, Estimator("clf3")}

\* start-ups explored with every condition of the history file
StoreArtifacts == {PairedArtifact, Dict([pipeline |-> Estimator("pipe3")])}

Horizon == IF loaded_object \in DeepArtifacts THEN MaxClock ELSE ShortClock

InitialFiles == {FileMissing, FileCorrupt, FileObject, FileArray(<<>>)}

Init ==
    /\ loaded_object \in Artifacts
    /\ model = ResolveModel(loaded_object)
    /\ scaler = ResolveScaler(loaded_object)
    /\ sessions = <<>>
    /\ IF loaded_object \in StoreArtifacts
       THEN datafile \in InitialFiles /\ writable \in BOOLEAN
       ELSE datafile = FileArray(<<>>) /\ writable = TRUE
    /\ now = 0
    /\ resp = InitialResponse
    /\ produced = <<>>
    /\ workers = <<>>

(* ------------------------------ handlers ------------------------------- *)

\* the last response; known records whether the session id the request
\* named was in the store when the request arrived
Respond(op, req, status, body, adapter) ==
    [op |-> op, req |-> req, status |-> status, body |-> body,
     adapter |-> adapter,
     known |-> IF "session_id" \in DOMAIN req
               THEN GetSessionId(req) \in DOMAIN sessions ELSE FALSE]

NewSession(t) == [start_time |-> t, events |-> <<>>, analyses |-> <<>>]

\* sessions.setdefault(id, s): an existing session is kept
StoreIfAbsent(id, s) ==
    [k \in DOMAIN sessions \cup {id} |->
        IF k \in DOMAIN sessions THEN sessions[k] ELSE s]

\* sessions[id] = s
Store(id, s) ==
    [k \in DOMAIN sessions \cup {id} |-> IF k = id THEN s ELSE sessions[k]]

start_session(req) ==
    LET t == now + 1
        session_id == IF req.session_id = AbsentKey THEN ToString(t)
                      ELSE req.session_id
    IN  /\ sessions' = Store(session_id, NewSession(t))
        /\ resp' = Respond("start_session", req, 200,
                           [success |-> TRUE, session_id |-> session_id,
                            message |-> "Sesion iniciada",
                            model_available |-> model.type # "NoneType"],
                           NoAdapter)
        /\ now' = t
        /\ UNCHANGED <<loaded_object, model, scaler, datafile, writable, produced>>

\* record_events without the 404 branch: an unknown id gets a session
record_events_upsert(req) ==
    LET session_id == GetSessionId(req)
        old == IF session_id \in DOMAIN sessions
               THEN sessions[session_id] ELSE NewSession(now + 1)
        all == old.events \o req.events
    IN  /\ sessions' = Store(session_id, [old EXCEPT !.events = all])
        /\ resp' = Respond("record_events", req, 200,
                           [success |-> TRUE,
                            events_recorded |-> Len(req.events),
                            total_events |-> Len(all)],
                           NoAdapter)
        /\ now' = now + 1
        /\ UNCHANGED <<loaded_object, model, scaler, datafile, writable, produced>>

record_events(req) ==
    LET session_id == GetSessionId(req)
        events == req.events
    IN  /\ IF ~TruthyId(session_id) \/ session_id \notin DOMAIN sessions
           THEN /\ resp' = Respond("record_events", req, 404,
                                   [error |-> "Sesion no encontrada"],
                                   NoAdapter)
                /\ UNCHANGED sessions
           ELSE LET all == sessions[session_id].events \o events
                IN  /\ sessions' = [sessions EXCEPT ![session_id].events = all]
                    /\ resp' = Respond("record_events", req, 200,
                                       [success |-> TRUE,
                                        events_recorded |-> Len(events),
                                        total_events |-> Len(all)],
                                       NoAdapter)
        /\ now' = now + 1
        /\ UNCHANGED <<loaded_object, model, scaler, datafile, writable, produced>>

\* the fallback of the earlier contract: success is false
ModelUnavailableEarlier(t, features) ==
    [success |-> FALSE, stress_level |-> 1, stress_label |-> "MEDIO",
     probabilities |-> FallbackProbabilities, timestamp |-> t,
     warning |-> "Modelo no disponible, usando prediccion por defecto",
     features_used |-> features]

\* the response of the "if not model" branch of analyze_stress
ModelUnavailable(t, features) ==
    [success |-> TRUE, stress_level |-> 1, stress_label |-> "MEDIO",
     probabilities |-> FallbackProbabilities, timestamp |-> t,
     warning |-> "Modelo no disponible, usando prediccion por defecto",
     features_used |-> features]

\* the response of the "except Exception" branch of analyze_stress
AnalyzeFailed(e, t) ==
    [success |-> FALSE, error |-> e, stress_level |-> 1,
     stress_label |-> "MEDIO", timestamp |-> t]

\* result['timestamp'] = ...; result['features_used'] = features
Annotate(result, t, features) ==
    IF result.success
    THEN [success |-> TRUE, stress_level |-> result.stress_level,
          stress_label |-> result.stress_label,
          probabilities |-> result.probabilities,
          timestamp |-> t, features_used |-> JsonObject(features)]
    ELSE [success |-> FALSE, error |-> result.error,
          stress_level |-> result.stress_level,
          stress_label |-> result.stress_label,
          probabilities |-> result.probabilities,
          timestamp |-> t, features_used |-> JsonObject(features)]

\* sessions.setdefault(session_id, {...})['analyses'].append(result): an
\* unknown id gets a session
AppendAnalysisUpsert(session_id, result) ==
    IF session_id \in DOMAIN sessions
    THEN [sessions EXCEPT ![session_id].analyses = Append(@, result)]
    ELSE [k \in DOMAIN sessions \cup {session_id} |->
            IF k = session_id
            THEN [start_time |-> result.timestamp, events |-> <<>>,
                  analyses |-> <<result>>]
            ELSE sessions[k]]

\* sessions[session_id]['analyses'].append(result), when the id is known
AppendAnalysis(session_id, result) ==
    IF TruthyId(session_id) /\ session_id \in DOMAIN sessions
    THEN [sessions EXCEPT ![session_id].analyses = Append(@, result)]
    ELSE sessions

\* the success test left out: every result goes to the history file
WritesHistoryAlways(result) == TRUE

\* "if result.get('success')": the results that go to the history file
WritesHistory(result) == result.success

\* analyze_stress up to the history write: the result it has built, the
\* adapter trace, the session store it leaves, and whether the handler has
\* already returned (early) before the session and history steps
analyze_classified(req) ==
    LET t == now + 1
        features == req.features
        session_id == GetSessionId(req)
        at(early, body, adapter, ss) ==
            [early |-> early, body |-> body, adapter |-> adapter, sessions |-> ss]
    IN
    IF req.body # "object"
    THEN \* data.get on a JSON array or scalar raises
         at(TRUE, AnalyzeFailed("AttributeError", t), NoAdapter, sessions)
    ELSE IF ~Truthy(model)
    THEN at(TRUE, ModelUnavailable(t, features), NoAdapter, sessions)
    ELSE IF features.json # "object"
    THEN \* completing a value that is not a mapping raises
         at(TRUE, AnalyzeFailed("TypeError", t), NoAdapter, sessions)
    ELSE
      LET completed == CompleteFeatures(features.map)
          c == analyze_stress_with_features(completed)
          result == Annotate(c.result, t, completed)
      IN  at(FALSE, result, c.adapter, AppendAnalysis(session_id, result))

\* what analyze_stress does with a request in the current state: the JSON
\* body and adapter trace of its response, and the session store and history
\* file it leaves
analyze_outcome(req) ==
    LET t == now + 1
        r == analyze_classified(req)
        loaded == load_data
        out(body, file) ==
            [body |-> body, adapter |-> r.adapter, sessions |-> r.sessions,
             datafile |-> file]
    IN
    IF r.early \/ ~WritesHistory(r.body)
    THEN out(r.body, datafile)
    ELSE IF ~loaded.list
    THEN \* history.append on a value that is not a list raises
         out(AnalyzeFailed("AttributeError", t), datafile)
    ELSE out(r.body, save_data(LastN(Append(loaded.value, r.body), HistoryCap)))

analyze_stress(req) ==
    LET o == analyze_outcome(req)
    IN  /\ now' = now + 1
        /\ resp' = Respond("analyze", req, 200, o.body, o.adapter)
        /\ sessions' = o.sessions
        /\ datafile' = o.datafile
        /\ produced' = IF o.body.success THEN Append(produced, o.body)
                       ELSE produced
        /\ UNCHANGED <<loaded_object, model, scaler, writable>>

test_analysis ==
    LET t == now + 1
        c == analyze_stress_with_features(test_features)
        r == c.result
        body == IF r.success
                THEN [success |-> TRUE, stress_level |-> r.stress_level,
                      stress_label |-> r.stress_label,
                      probabilities |-> r.probabilities, test_mode |-> TRUE,
                      test_features |-> test_features, timestamp |-> t]
                ELSE [success |-> FALSE, error |-> r.error,
                      stress_level |-> r.stress_level,
                      stress_label |-> r.stress_label,
                      probabilities |-> r.probabilities, test_mode |-> TRUE,
                      test_features |-> test_features, timestamp |-> t]
    IN  /\ resp' = Respond("test_analysis", NoRequest, 200, body, c.adapter)
        /\ now' = t
        /\ UNCHANGED <<loaded_object, model, scaler, sessions, datafile, writable,
                       produced>>

(* ------------------------- read-only endpoints ------------------------- *)

\* request.args.get('limit', 10, type=int) when no limit is given
DefaultLimit == 10

HistoryRequests == {NoRequest} \cup [limit : {0, 1, 2}]

\* history[:limit] written for history[-limit:]: the oldest entries
RecentEntriesHead(h, limit) ==
    IF limit > 0 THEN (IF Len(h) <= limit THEN h ELSE SubSeq(h, 1, limit)) ELSE h

\* "history[-limit:] if limit > 0 else history"
RecentEntries(h, limit) == IF limit > 0 THEN LastN(h, limit) ELSE h

\* get_history; when the file holds a JSON object (one member) instead of an
\* array, slicing it raises, and with limit <= 0 the object itself is sent
get_history(req) ==
    LET limit == IF "limit" \in DOMAIN req THEN req.limit ELSE DefaultLimit
        loaded == load_data
        body == IF loaded.list
                THEN [success |-> TRUE,
                      data |-> RecentEntries(loaded.value, limit),
                      total |-> Len(loaded.value)]
                ELSE IF limit > 0
                THEN [success |-> FALSE, error |-> "TypeError"]
                ELSE [success |-> TRUE, data_is_object |-> TRUE, total |-> 1]
    IN  /\ resp' = Respond("get_history", req, 200, body, NoAdapter)
        /\ now' = now + 1
        /\ UNCHANGED <<loaded_object, model, scaler, sessions, datafile, writable,
                       produced>>

\* the number of entries of h labelled l, as get_stats counts them
CountLabel(h, l) == Cardinality({i \in 1..Len(h) : h[i].stress_label = l})

\* get_stats; the members of a JSON object are strings, which are counted
\* in the total but not in the distribution
get_stats ==
    LET loaded == load_data
        h == loaded.value
        body == IF loaded.list /\ h = <<>>
                THEN [success |-> TRUE, total_analyses |-> 0,
                      distribution |-> [bajo |-> 0, medio |-> 0, alto |-> 0],
                      model_loaded |-> model.type # "NoneType"]
                ELSE [success |-> TRUE,
                      total_analyses |-> IF loaded.list THEN Len(h) ELSE 1,
                      distribution |-> [bajo |-> CountLabel(h, "BAJO"),
                                        medio |-> CountLabel(h, "MEDIO"),
                                        alto |-> CountLabel(h, "ALTO")],
                      model_loaded |-> model.type # "NoneType",
                      has_scaler |-> scaler.type # "NoneType"]
    IN  /\ resp' = Respond("get_stats", NoRequest, 200, body, NoAdapter)
        /\ now' = now + 1
        /\ UNCHANGED <<loaded_object, model, scaler, sessions, datafile, writable,
                       produced>>

get_status ==
    /\ resp' = Respond("get_status", NoRequest, 200,
                       [success |-> TRUE,
                        model_loaded |-> model.type # "NoneType",
                        scaler_loaded |-> scaler.type # "NoneType",
                        active_sessions |-> Cardinality(DOMAIN sessions),
                        timestamp |-> now + 1],
                       NoAdapter)
    /\ now' = now + 1
    /\ UNCHANGED <<loaded_object, model, scaler, sessions, datafile, writable,
                   produced>>

\* type(model).__name__ if model else None
ModelTypeName == IF Truthy(model) THEN model.type ELSE "None"

test_endpoint ==
    /\ resp' = Respond("test_endpoint", NoRequest, 200,
                       [success |-> TRUE,
                        message |-> "API funcionando correctamente",
                        timestamp |-> now + 1,
                        model_loaded |-> model.type # "NoneType",
                        scaler_loaded |-> scaler.type # "NoneType",
                        total_sessions |-> Cardinality(DOMAIN sessions),
                        model_type |-> ModelTypeName],
                       NoAdapter)
    /\ now' = now + 1
    /\ UNCHANGED <<loaded_object, model, scaler, sessions, datafile, writable,
                   produced>>

health ==
    /\ resp' = Respond("health", NoRequest, 200,
                       [status |-> "healthy",
                        model_loaded |-> model.type # "NoneType",
                        scaler_loaded |-> scaler.type # "NoneType",
                        timestamp |-> now + 1],
                       NoAdapter)
    /\ now' = now + 1
    /\ UNCHANGED <<loaded_object, model, scaler, sessions, datafile, writable,
                   produced>>

(* --------------------------- specification ----------------------------- *)

StartSession ==
    /\ now < Horizon
    /\ (\E req \in StartRequests : start_session(req))
    /\ UNCHANGED workers

RecordEvents ==
    /\ now < Horizon
    /\ (\E req \in RecordRequests : record_events(req))
    /\ UNCHANGED workers

Analyze ==
    /\ now < Horizon
    /\ (\E req \in AnalyzeRequests : analyze_stress(req))
    /\ UNCHANGED workers

TestAnalysis ==
    /\ now < Horizon
    /\ test_analysis
    /\ UNCHANGED workers

GetHistory ==
    /\ now < Horizon
    /\ (\E req \in HistoryRequests : get_history(req))
    /\ UNCHANGED workers

GetStats ==
    /\ now < Horizon
    /\ get_stats
    /\ UNCHANGED workers

GetStatus ==
    /\ now < Horizon
    /\ get_status
    /\ UNCHANGED workers

TestEndpoint ==
    /\ now < Horizon
    /\ test_endpoint
    /\ UNCHANGED workers

Health ==
    /\ now < Horizon
    /\ health
    /\ UNCHANGED workers

Next ==
    \/ StartSession \/ RecordEvents \/ Analyze \/ TestAnalysis
    \/ GetHistory \/ GetStats \/ GetStatus \/ TestEndpoint \/ Health

Spec == Init /\ [][Next]_vars

(* ------------------- long runs of the history log ---------------------- *)

\* the features sent by the request served at time t of a long run; at the
\* times in LongBranchTimes the client may send a malformed value instead
LongBranchTimes == {2, 60, 120}

LongRequests(t) ==
    LET f == IF t % 3 = 0 THEN JsonObject(<<>>) ELSE JsonObject(test_features)
        r(x) == [body |-> "object", session_id |-> AbsentKey, features |-> x]
    IN  IF t \in LongBranchTimes
        THEN {r(f), r(JsonObject([avg_key_latency |-> "abc"]))}
        ELSE {r(f)}

InitLong ==
    /\ loaded_object \in {Estimator("clf3"), PairedArtifact, LoadError}
    /\ model = ResolveModel(loaded_object)
    /\ scaler = ResolveScaler(loaded_object)
    /\ sessions = <<>>
    /\ datafile \in {FileMissing, FileCorrupt, FileArray(<<>>)}
    /\ writable \in BOOLEAN
    /\ now = 0
    /\ resp = InitialResponse
    /\ produced = <<>>
    /\ workers = <<>>

AnalyzeLong ==
    /\ now < LongClock
    /\ (\E req \in LongRequests(now + 1) : analyze_stress(req))
    /\ UNCHANGED workers

NextLong == AnalyzeLong

SpecLong == InitLong /\ [][NextLong]_vars

(* ---------------------- concurrent analyze requests -------------------- *)

\* The server handles each request on a thread of its own and the history
\* file has no lock, so the history steps of analyze_stress of different
\* requests interleave:
\*     history = load_data()          LoadHistory
\*     history.append(result)         AppendResult (with the [-100:] cut)
\*     save_data(history[-100:])      RewriteHistory (and the return)

\* the number of analyze requests handled at the same time
NumWorkers == 2

Workers == 1..NumWorkers

\* a worker that has not received its request yet
IdleWorker ==
    [pc |-> "idle", req |-> NoRequest, result |-> [none |-> TRUE],
     adapter |-> NoAdapter, list |-> TRUE, snapshot |-> <<>>, local |-> <<>>,
     wrote |-> FALSE]

ConcRequests ==
    [body : {"object"}, session_id : {AbsentKey},
     features : {JsonObject(<<>>), JsonObject([avg_key_latency |-> "abc"])}]

\* the lengths of the history the file holds at start-up
PriorLengths == {0, 99}

\* a history of n results that earlier analyze requests returned and wrote
PriorHistory(n) ==
    [i \in 1..n |->
        Annotate(analyze_stress_with_features(default_features).result,
                 i - n, default_features)]

InitConc ==
    /\ loaded_object \in {Estimator("clf3"), PairedArtifact, LoadError}
    /\ model = ResolveModel(loaded_object)
    /\ scaler = ResolveScaler(loaded_object)
    /\ sessions = <<>>
    /\ IF loaded_object = LoadError
       THEN datafile = FileArray(<<>>)
       ELSE datafile \in {FileMissing, FileObject}
                           \cup {FileArray(PriorHistory(n)) : n \in PriorLengths}
    /\ writable = TRUE
    /\ now = 0
    /\ resp = InitialResponse
    /\ produced = history
    /\ workers = [w \in Workers |-> IdleWorker]

\* the worker returns body to its client
Return(w, body, wrote) ==
    /\ resp' = Respond("analyze", workers[w].req, 200, body, workers[w].adapter)
    /\ produced' = IF body.success THEN Append(produced, body) ELSE produced
    /\ workers' = [workers EXCEPT ![w].pc = "done", ![w].wrote = wrote]

\* analyze_stress up to "if result.get('success')": the request is read, the
\* features are classified and the result goes to the session
Classify(w, req) ==
    LET r == analyze_classified(req)
    IN  /\ workers[w].pc = "idle"
        /\ now' = now + 1
        /\ sessions' = r.sessions
        /\ IF r.early \/ ~WritesHistory(r.body)
           THEN /\ resp' = Respond("analyze", req, 200, r.body, r.adapter)
                /\ produced' = IF r.body.success THEN Append(produced, r.body)
                               ELSE produced
                /\ workers' = [workers EXCEPT ![w].pc = "done", ![w].req = req,
                                              ![w].result = r.body,
                                              ![w].adapter = r.adapter]
           ELSE /\ workers' = [workers EXCEPT ![w].pc = "classified",
                                              ![w].req = req,
                                              ![w].result = r.body,
                                              ![w].adapter = r.adapter]
                /\ UNCHANGED <<resp, produced>>
        /\ UNCHANGED <<loaded_object, model, scaler, datafile, writable>>

\* history = load_data()
LoadHistory(w) ==
    LET loaded == load_data
    IN  /\ workers[w].pc = "classified"
        /\ workers' = [workers EXCEPT ![w].pc = "loaded",
                                      ![w].list = loaded.list,
                                      ![w].snapshot = loaded.value,
                                      ![w].local = loaded.value]
        /\ UNCHANGED <<loaded_object, model, scaler, sessions, datafile,
                       writable, now, resp, produced>>

\* the append with the cut left out
AppendResultNoCut(w) ==
    /\ workers[w].pc = "loaded"
    /\ IF ~workers[w].list
       THEN \* history.append on a value that is not a list raises
            Return(w, AnalyzeFailed("AttributeError", workers[w].result.timestamp),
                   FALSE)
       ELSE /\ workers' = [workers EXCEPT
                   ![w].pc = "appended",
                   ![w].local = Append(workers[w].local, workers[w].result)]
            /\ UNCHANGED <<resp, produced>>
    /\ UNCHANGED <<loaded_object, model, scaler, sessions, datafile, writable,
                   now>>

\* history.append(result), and the [-100:] cut of the list to be written
AppendResult(w) ==
    /\ workers[w].pc = "loaded"
    /\ IF ~workers[w].list
       THEN \* history.append on a value that is not a list raises
            Return(w, AnalyzeFailed("AttributeError", workers[w].result.timestamp),
                   FALSE)
       ELSE /\ workers' = [workers EXCEPT
                   ![w].pc = "appended",
                   ![w].local = LastN(Append(workers[w].local, workers[w].result),
                                      HistoryCap)]
            /\ UNCHANGED <<resp, produced>>
    /\ UNCHANGED <<loaded_object, model, scaler, sessions, datafile, writable,
                   now>>

\* the rewrite under a lock around load, append and save: the file is read
\* again at the time of the write
RewriteHistoryLocked(w) ==
    /\ workers[w].pc = "appended"
    /\ datafile' = save_data(LastN(Append(history, workers[w].result),
                                   HistoryCap))
    /\ Return(w, workers[w].result, TRUE)
    /\ UNCHANGED <<loaded_object, model, scaler, sessions, writable, now>>

\* save_data(history[-100:]); return jsonify(result)
RewriteHistory(w) ==
    /\ workers[w].pc = "appended"
    /\ datafile' = save_data(workers[w].local)
    /\ Return(w, workers[w].result, TRUE)
    /\ UNCHANGED <<loaded_object, model, scaler, sessions, writable, now>>

ConcClassify == \E w \in Workers : \E req \in ConcRequests : Classify(w, req)

ConcLoad == \E w \in Workers : LoadHistory(w)

ConcAppend == \E w \in Workers : AppendResult(w)

ConcRewrite == \E w \in Workers : RewriteHistory(w)

NextConc == ConcClassify \/ ConcLoad \/ ConcAppend \/ ConcRewrite

SpecConc == InitConc /\ [][NextConc]_vars

(* ------------------------------ claims --------------------------------- *)

\* C1: with a working model and a writable history file, the persisted
\* history has at most 100 entries; after n successful analyses from an
\* empty history it has min(n, 100) entries, which are the min(n, 100) most
\* recent results in the order they were produced.
HistoryHoldsMostRecent100 ==
    (Truthy(model) /\ writable) =>
        LET n == Len(produced)
            k == IF n < 100 THEN n ELSE 100
        IN  /\ Len(history) <= 100
            /\ Len(history) = k
            /\ \A i \in 1..k : history[i] = produced[n - k + i]

\* after 150 successful analyses the history is results 51..150
After150Holds51To150 ==
    /\ Truthy(model) /\ writable
    /\ Len(produced) = 150
    /\ Len(history) = 100
    /\ history[1] = produced[51]
    /\ history[100] = produced[150]

\* the request that produced resp' was served by this step
Served(op) == now' # now /\ resp'.op = op

FallbackForEveryBody ==
    (loaded_object = LoadError /\ resp.op = "analyze") =>
        /\ resp.status = 200
        /\ resp.body.success = TRUE
        /\ resp.body.stress_level = 1
        /\ resp.body.stress_label = "MEDIO"
        /\ "probabilities" \in DOMAIN resp.body
        /\ resp.body.probabilities =
               [bajo |-> "0.33", medio |-> "0.34", alto |-> "0.33"]
        /\ "warning" \in DOMAIN resp.body

\* C3 amended: after a failed load every analyze call whose request body is
\* absent or a JSON object, for every features value and every session id,
\* returns the success = true fallback with a warning.
FallbackForEveryObjectBody ==
    (loaded_object = LoadError /\ resp.op = "analyze"
        /\ resp.req.body = "object") =>
        /\ resp.status = 200
        /\ resp.body.success = TRUE
        /\ resp.body.stress_level = 1
        /\ resp.body.stress_label = "MEDIO"
        /\ "probabilities" \in DOMAIN resp.body
        /\ resp.body.probabilities =
               [bajo |-> "0.33", medio |-> "0.34", alto |-> "0.33"]
        /\ "warning" \in DOMAIN resp.body

\* the fallback answered to a request whose features value is not a mapping
\* and whose session id is known
FallbackAnswered ==
    /\ loaded_object = LoadError
    /\ resp.op = "analyze"
    /\ resp.req.features = JsonOther
    /\ resp.req.session_id = "a"
    /\ resp.known
    /\ "warning" \in DOMAIN resp.body

\* C4: start_session with an explicit id that is already in the store
\* replaces that session by one with no events and no analyses, leaves every
\* other session as it was, and does not add a session.
StartSessionReplaces ==
    [][ (/\ Served("start_session")
         /\ resp'.req.session_id # AbsentKey
         /\ resp'.req.session_id \in DOMAIN sessions)
        => LET id == resp'.req.session_id
           IN  /\ DOMAIN sessions' = DOMAIN sessions
               /\ sessions'[id].events = <<>>
               /\ sessions'[id].analyses = <<>>
               /\ \A k \in DOMAIN sessions \ {id} : sessions'[k] = sessions[k] ]_vars

\* a second start_session on "a" after "a" was used, next to another session
SessionReplaced ==
    /\ resp.op = "start_session"
    /\ resp.req.session_id = "a"
    /\ resp.known
    /\ sessions["a"] = [start_time |-> now, events |-> <<>>, analyses |-> <<>>]
    /\ "" \in DOMAIN sessions
    /\ sessions[""].start_time < now

\* features.get(k) with the default table of the claim
C5Value(f, k, d) == IF k \in DOMAIN f THEN f[k] ELSE d

\* C5: while the model is available, the completed feature set holds each of
\* the 7 recognized keys, a provided key keeps its value, a missing key gets
\* its default (45, 150, 25, 0.02, 12, 1200, 350), and the vector handed to
\* the classifier lists the 7 values in the canonical order.
FeaturesCompletedInOrder ==
    (resp.op = "analyze" /\ resp.adapter.called) =>
        LET f == resp.req.features.map
            expected ==
                <<C5Value(f, "keys_per_minute", "45"),
                  C5Value(f, "avg_key_latency", "150"),
                  C5Value(f, "std_key_latency", "25"),
                  C5Value(f, "error_rate", "0.02"),
                  C5Value(f, "clicks_per_minute", "12"),
                  C5Value(f, "total_mouse_distance", "1200"),
                  C5Value(f, "avg_mouse_speed", "350")>>
            names ==
                <<"keys_per_minute", "avg_key_latency", "std_key_latency",
                  "error_rate", "clicks_per_minute", "total_mouse_distance",
                  "avg_mouse_speed">>
        IN  /\ resp.adapter.X = expected
            /\ datafile.kind # "object" => "features_used" \in DOMAIN resp.body
            /\ "features_used" \in DOMAIN resp.body =>
                 LET u == resp.body.features_used
                 IN  /\ u.json = "object"
                     /\ \A i \in 1..7 :
                          /\ names[i] \in DOMAIN u.map
                          /\ u.map[names[i]] = expected[i]
                     /\ \A k \in DOMAIN f : k \in DOMAIN u.map /\ u.map[k] = f[k]

\* a partial mapping (two recognized keys and an extra one) completed
PartialFeaturesCompleted ==
    /\ resp.op = "analyze"
    /\ resp.adapter.called
    /\ DOMAIN resp.req.features.map = {"keys_per_minute", "error_rate", "extra"}
    /\ "features_used" \in DOMAIN resp.body
    /\ resp.adapter.X = <<"85", "150", "25", "0.08", "12", "1200", "350">>

\* the classification of the last analyze request failed: the features
\* were not a mapping, the scaler or the estimator raised, or fewer than
\* three probabilities came back
ClassificationFailed ==
    /\ resp.op = "analyze"
    /\ resp.req.body = "object"
    /\ Truthy(model)
    /\ \/ resp.req.features.json # "object"
       \/ /\ resp.adapter.called
          /\ ~resp.adapter.predicted \/ resp.adapter.nproba < 3

\* C6: if classification fails while the model is loaded, analyze answers
\* 200 with success = false, an error message, stress_level 1 and
\* stress_label "MEDIO".
FailedClassificationDegrades ==
    ClassificationFailed =>
        /\ resp.status = 200
        /\ resp.body.success = FALSE
        /\ "error" \in DOMAIN resp.body
        /\ resp.body.stress_level = 1
        /\ resp.body.stress_label = "MEDIO"

\* the estimator raised on a malformed feature value
EstimatorRaised ==
    /\ ClassificationFailed
    /\ resp.adapter.called
    /\ ~resp.adapter.predicted
    /\ ~resp.adapter.transformed
    /\ resp.body.error = "ValueError"

\* every result of analyze and test_analysis has a stress_level in {0,1,2}
\* and the label at that index
LevelMatchesLabel ==
    resp.op \in {"analyze", "test_analysis"} =>
        /\ resp.body.stress_level \in {0, 1, 2}
        /\ resp.body.stress_label =
               <<"BAJO", "MEDIO", "ALTO">>[resp.body.stress_level + 1]

\* C7 as stated: for every prediction index the estimator returns, classify
\* yields success = true with that index when it is in {0,1,2} and 1
\* otherwise; and every result has a level in {0,1,2} with its label.
EveryIndexClassifies ==
    /\ resp.adapter.predicted =>
         /\ resp.adapter.success
         /\ resp.adapter.stress_level =
                IF resp.adapter.raw \in {0, 1, 2} THEN resp.adapter.raw ELSE 1
    /\ LevelMatchesLabel

\* C7 amended: for every prediction index the estimator returns together
\* with at least three probabilities, classify yields success = true with
\* that index when it is in {0,1,2} and 1 otherwise; and every result has a
\* level in {0,1,2} with its label.
EveryIndexWithThreeProbabilitiesClassifies ==
    /\ (resp.adapter.predicted /\ resp.adapter.nproba >= 3) =>
         /\ resp.adapter.success
         /\ resp.adapter.stress_level =
                IF resp.adapter.raw \in {0, 1, 2} THEN resp.adapter.raw ELSE 1
    /\ LevelMatchesLabel

\* the estimator returned index 3 and the result is MEDIO
OutOfRangeIndexClamped ==
    /\ resp.op = "analyze"
    /\ resp.adapter.predicted
    /\ resp.adapter.raw = 3
    /\ resp.body.success
    /\ resp.body.stress_level = 1
    /\ resp.body.stress_label = "MEDIO"

\* the three shapes of the claim, in its precedence
IsPaired(lo) == lo.type = "dict" /\ Has(lo, "model") /\ Has(lo, "scaler")

IsPipeline(lo) == lo.type = "dict" /\ ~IsPaired(lo) /\ Has(lo, "pipeline")

IsDirect(lo) == lo.type # "LoadError" /\ ~IsPaired(lo) /\ ~IsPipeline(lo)

\* no request changes what was resolved at startup
ShapeFixed == [][model' = model /\ scaler' = scaler]_vars

\* C8 as stated: paired, then pipeline, then direct; a paired artifact is
\* classified with the scaler's transform and then its model entry, a
\* pipeline artifact with its pipeline entry and no scaling, any other
\* artifact with itself and no scaler; the shape never changes.
ShapePrecedenceAlwaysScaled ==
    /\ [](/\ IsPaired(loaded_object) =>
               /\ model = loaded_object.entries["model"]
               /\ resp.adapter.called => resp.adapter.transformed
          /\ IsPipeline(loaded_object) =>
               /\ model = loaded_object.entries["pipeline"]
               /\ resp.adapter.called => ~resp.adapter.transformed
          /\ IsDirect(loaded_object) =>
               /\ model = loaded_object
               /\ resp.adapter.called => ~resp.adapter.transformed)
    /\ ShapeFixed

\* C8 amended: paired, then pipeline, then direct; a paired artifact is
\* classified with its model entry, after the scaler's transform when the
\* scaler entry is truthy and without scaling when it is None; a pipeline
\* artifact with its pipeline entry and no scaling, any other artifact with
\* itself and no scaler; the shape never changes.
ShapePrecedence ==
    /\ [](/\ IsPaired(loaded_object) =>
               /\ model = loaded_object.entries["model"]
               /\ scaler = loaded_object.entries["scaler"]
               /\ resp.adapter.called =>
                    (resp.adapter.transformed <=>
                        loaded_object.entries["scaler"].type # "NoneType")
          /\ IsPipeline(loaded_object) =>
               /\ model = loaded_object.entries["pipeline"]
               /\ scaler.type = "NoneType"
               /\ resp.adapter.called => ~resp.adapter.transformed
          /\ IsDirect(loaded_object) =>
               /\ model = loaded_object
               /\ scaler.type = "NoneType"
               /\ resp.adapter.called => ~resp.adapter.transformed)
    /\ ShapeFixed

\* a mapping with all three entries classified as paired
PairedWinsOverPipeline ==
    /\ loaded_object.type = "dict"
    /\ DOMAIN loaded_object.entries = {"model", "scaler", "pipeline"}
    /\ loaded_object.entries["pipeline"].type = "estimator"
    /\ resp.op = "analyze"
    /\ resp.adapter.called
    /\ resp.adapter.transformed
    /\ resp.adapter.predicted

\* C9: the history is written only on success: an analyze call whose result
\* has success = false leaves the persisted history unchanged, and every
\* history entry has success = true.
HistoryOnlyOnSuccess ==
    /\ [](\A i \in 1..Len(history) : history[i].success = TRUE)
    /\ [][ (Served("analyze") /\ resp'.body.success = FALSE)
           => datafile' = datafile ]_vars

\* a failed classification after a successful one, the history kept
FailureAfterSuccess ==
    /\ resp.op = "analyze"
    /\ resp.adapter.called
    /\ resp.body.success = FALSE
    /\ Len(history) = 1
    /\ history[1].timestamp < now

\* s[-99:] of the claim
C10Last99(s) == IF Len(s) <= 99 THEN s ELSE SubSeq(s, Len(s) - 98, Len(s))

AnalyzeRecordsIntoNamedSession ==
    [][ (Served("analyze") /\ resp'.req.session_id \in DOMAIN sessions)
        => LET id == resp'.req.session_id
           IN  sessions'[id].analyses =
                   Append(sessions[id].analyses, resp'.body) ]_vars

\* success, stress_level, stress_label and probabilities of a result
ResultCore(b) ==
    [success |-> b.success, stress_level |-> b.stress_level,
     stress_label |-> b.stress_label,
     probabilities |-> IF "probabilities" \in DOMAIN b THEN b.probabilities
                       ELSE [bajo |-> "", medio |-> "", alto |-> ""]]

\* the session ids a request can carry: absent, unknown and stored ones
C12Ids == {AbsentKey, "b"} \cup DOMAIN sessions

\* in the current state every analyze request gets the same result whether
\* its session id is absent, unknown or stored
SessionIdIrrelevant ==
    \A req \in {r \in AnalyzeRequests : r.session_id = AbsentKey} :
        \A id \in C12Ids :
            ResultCore(analyze_outcome([req EXCEPT !.session_id = id]).body) =
                ResultCore(analyze_outcome(req).body)

C14Limit == IF "limit" \in DOMAIN resp.req THEN resp.req.limit ELSE 10

\* the last min(n, length) entries of h, in stored order
C14Tail(h, n) ==
    LET k == IF n < Len(h) THEN n ELSE Len(h)
    IN  [i \in 1..k |-> h[Len(h) - k + i]]

\* the history endpoint changes neither the history nor any session
HistoryReadOnly ==
    [][ Served("get_history") =>
          /\ datafile' = datafile
          /\ sessions' = sessions
          /\ produced' = produced ]_vars

\* C14 as stated: for every limit N the history endpoint returns at most N
\* entries, the last min(N, length) of the persisted history in stored
\* order, and total is the length of the history; it changes nothing.
HistoryReturnsLastN ==
    /\ []((resp.op = "get_history" /\ datafile.kind # "object") =>
            /\ resp.body.success = TRUE
            /\ Len(resp.body.data) <= C14Limit
            /\ resp.body.data = C14Tail(history, C14Limit)
            /\ resp.body.total = Len(history))
    /\ HistoryReadOnly

\* C14 amended: for every limit N > 0 the history endpoint returns at most
\* N entries, the last min(N, length) of the persisted history in stored
\* order; for N <= 0 it returns the whole history; total is the length of
\* the history; it changes nothing.
HistoryReturnsLastNOrAll ==
    /\ []((resp.op = "get_history" /\ datafile.kind # "object") =>
            /\ resp.body.success = TRUE
            /\ C14Limit > 0 =>
                 /\ Len(resp.body.data) <= C14Limit
                 /\ resp.body.data = C14Tail(history, C14Limit)
            /\ C14Limit <= 0 => resp.body.data = history
            /\ resp.body.total = Len(history))
    /\ HistoryReadOnly

\* limit 1 on a history of two entries: the most recent one is returned
MostRecentOfTwoReturned ==
    /\ resp.op = "get_history"
    /\ "limit" \in DOMAIN resp.req
    /\ resp.req.limit = 1
    /\ Len(history) = 2
    /\ resp.body.data = <<history[2]>>
    /\ resp.body.total = 2

\* what C15 asks of a request served from the history file f
C15TreatedAsEmpty ==
    /\ (Served("analyze") /\ resp'.adapter.success /\ writable) =>
         /\ resp'.body.success = TRUE
         /\ datafile' = FileArray(<<resp'.body>>)
    /\ Served("get_history") =>
         /\ resp'.body.success = TRUE
         /\ "data" \in DOMAIN resp'.body
         /\ resp'.body.data = <<>>
         /\ resp'.body.total = 0
    /\ Served("get_stats") =>
         /\ resp'.body.success = TRUE
         /\ resp'.body.total_analyses = 0

\* C15: whatever the history file holds that is not an array of results
\* (missing, unparseable, parseable but not an array) is treated as an
\* empty history: a classified analyze returns success=true and leaves the
\* file holding exactly its result, history and stats answer success=true
\* with no entries.
NonArrayHistoryIsEmpty ==
    [][ datafile.kind # "array" => C15TreatedAsEmpty ]_vars

\* the part of C15 the code does keep: a missing or unparseable file
MissingOrCorruptHistoryIsEmpty ==
    [][ datafile.kind \in {"missing", "corrupt"} => C15TreatedAsEmpty ]_vars

\* the session ids start_session has returned so far: start_session is
\* the only handler that stores a session and none removes one
C18Started == DOMAIN sessions

\* C18: once start_session has returned a session id s, every later
\* record_events call passing s is accepted rather than answered 404, every
\* later analyze call passing s that reaches the classification records
\* into that session, and no operation removes a session from the store.
StartedSessionStaysUsable ==
    [][ /\ (Served("record_events") /\ resp'.req.session_id \in C18Started) =>
             resp'.status # 404
        /\ (Served("analyze") /\ resp'.adapter.called
                /\ resp'.req.session_id \in C18Started) =>
             LET s == resp'.req.session_id
             IN  Len(sessions'[s].analyses) = Len(sessions[s].analyses) + 1
        /\ C18Started \subseteq DOMAIN sessions' ]_vars

\* the part of C18 the code does keep: no operation removes a session
SessionsNeverRemoved ==
    [][ DOMAIN sessions \subseteq DOMAIN sessions' ]_vars

\* what C16 asks of a record_events call on the stored session s
C16Appended(s) ==
    /\ resp'.status = 200
    /\ sessions'[s].events = sessions[s].events \o resp'.req.events
    /\ resp'.body.events_recorded = Len(resp'.req.events)
    /\ resp'.body.total_events =
         Len(sessions[s].events) + Len(resp'.req.events)
    /\ sessions'[s].analyses = sessions[s].analyses
    /\ DOMAIN sessions' = DOMAIN sessions
    /\ \A o \in DOMAIN sessions \ {s} : sessions'[o] = sessions[o]
    /\ datafile' = datafile

\* C16: record_events on a session id present in the store appends the
\* given events verbatim and in order to that session's events, reports
\* events_recorded and total_events, and leaves the session's analyses,
\* every other session and the history unchanged.
RecordEventsAppends ==
    [][ (Served("record_events") /\ resp'.req.session_id \in DOMAIN sessions) =>
          C16Appended(resp'.req.session_id) ]_vars

\* the part of C16 the code does keep: ids that are not falsy in Python
RecordEventsAppendsForTruthyId ==
    [][ (Served("record_events") /\ resp'.req.session_id \in DOMAIN sessions
            /\ TruthyId(resp'.req.session_id)) =>
          C16Appended(resp'.req.session_id) ]_vars

\* an analyze request with an object body, no session and no features
C17Request ==
    [body |-> "object", session_id |-> AbsentKey, features |-> JsonObject(<<>>)]

\* analyze answers the model-unavailable fallback in the current state
AnalyzeFallsBack == "warning" \in DOMAIN analyze_outcome(C17Request).body

\* C17: the availability flag the service reports (model_available of
\* start_session, model_loaded of stats, status, test and health) is false
\* exactly when analyze answers with the model-unavailable fallback, for
\* every artifact the loader can produce.
AvailabilityFlagMatchesAnalyze ==
    /\ resp.op = "start_session" =>
         (resp.body.model_available = FALSE <=> AnalyzeFallsBack)
    /\ resp.op \in {"get_stats", "get_status", "test_endpoint", "health"} =>
         (resp.body.model_loaded = FALSE <=> AnalyzeFallsBack)

\* the part of C17 the code does keep: every artifact but a falsy object
\* that is not None
AvailabilityFlagMatchesForNonEmpty ==
    (model.type = "NoneType" \/ Truthy(model)) => AvailabilityFlagMatchesAnalyze

\* analyze on the built-in sample
C20Request ==
    [body |-> "object", session_id |-> AbsentKey,
     features |-> JsonObject(test_features)]

\* C20: test_analysis is analyze on the built-in sample without side
\* effects: in every model state it returns the success flag, stress_level,
\* stress_label and probabilities analyze returns for the sample (on a
\* history file analyze can append to), and it changes neither the history
\* nor any session.
TestAnalysisIsAnalyzeOnSample ==
    /\ []((resp.op = "test_analysis" /\ datafile.kind # "object") =>
            ResultCore(resp.body) = ResultCore(analyze_outcome(C20Request).body))
    /\ [][ Served("test_analysis") =>
             /\ datafile' = datafile
             /\ sessions' = sessions
             /\ produced' = produced ]_vars

\* the part of C20 the code does keep: a model that is available
TestAnalysisIsAnalyzeWhenAvailable ==
    /\ []((resp.op = "test_analysis" /\ datafile.kind # "object"
             /\ Truthy(model)) =>
            ResultCore(resp.body) = ResultCore(analyze_outcome(C20Request).body))
    /\ [][ Served("test_analysis") =>
             /\ datafile' = datafile
             /\ sessions' = sessions
             /\ produced' = produced ]_vars

Range(q) == {q[i] : i \in 1..Len(q)}

\* the worker has rewritten the history file and returned its result
Wrote(w) == workers[w].pc = "done" /\ workers[w].wrote

\* C13: history writers are unsynchronised and the last write wins: when
\* two analyze requests have both loaded the same history before either
\* rewrote it and both have returned success=true, the persisted history
\* never holds the results of both; one update is lost.
LastWriteWins ==
    \A w1 \in Workers : \A w2 \in Workers \ {w1} :
        ( /\ Wrote(w1) /\ Wrote(w2)
          /\ workers[w1].snapshot = workers[w2].snapshot ) =>
        ~ ( /\ workers[w1].result \in Range(history)
            /\ workers[w2].result \in Range(history) )

\* the interleaving of C13 has happened: both requests returned
\* success=true and the history holds the result of only one of them
UpdateLost ==
    \E w1 \in Workers : \E w2 \in Workers \ {w1} :
        /\ Wrote(w1) /\ Wrote(w2)
        /\ workers[w1].snapshot = workers[w2].snapshot
        /\ workers[w1].result \in Range(produced)
        /\ workers[w2].result \in Range(produced)
        /\ workers[w1].result.success /\ workers[w2].result.success
        /\ workers[w1].result \notin Range(history)
        /\ history = Append(workers[w2].snapshot, workers[w2].result)

\* the entries of h before position j are the last j - 1 entries of q
C19PrefixFrom(h, j, q) ==
    /\ j - 1 <= Len(q)
    /\ \A i \in 1..(j - 1) : h[i] = q[Len(q) - (j - 1) + i]

\* C19: under every interleaving of concurrent analyze requests the
\* persisted history holds at most 100 entries, every entry is a result
\* some analyze call returned, no entry occurs twice, and the entries
\* before a writer's result are the tail of the history that writer loaded
\* (the order of each writer's load-then-append is kept).
ConcurrentHistoryWellFormed ==
    /\ Len(history) <= HistoryCap
    /\ Range(history) \subseteq Range(produced)
    /\ \A i \in 1..Len(history) : \A j \in 1..Len(history) :
         i # j => history[i] # history[j]
    /\ \A w \in Workers : \A j \in 1..Len(history) :
         (Wrote(w) /\ history[j] = workers[w].result) =>
           C19PrefixFrom(history, j, workers[w].snapshot)

\* two writers one after the other on a history of 99 entries: the second
\* loaded 100 entries and its write dropped the oldest one
ConcurrentWritersReachCap ==
    \E w1 \in Workers : \E w2 \in Workers \ {w1} :
        /\ Wrote(w1) /\ Wrote(w2)
        /\ Len(workers[w2].snapshot) = HistoryCap
        /\ workers[w1].result \in Range(workers[w2].snapshot)
        /\ Len(history) = HistoryCap
        /\ history[HistoryCap] = workers[w2].result
        /\ history[1] = workers[w2].snapshot[2]

====
